---- MODULE Spec2Model ----
(***************************************************************************)
(* s3explorer (src/s3explorer.go): listing of S3 bucket keys and the       *)
(* bounded-concurrency download engine.                                    *)
(*                                                                         *)
(* Strings are sequences of tokens: "/" is the path separator and every    *)
(* other token stands for a run of non-separator characters, so            *)
(* fmt.Sprintf("%s/%s", a, b), filepath.Base and strings.Contains are      *)
(* computed on the sequences as the library computes them on bytes.        *)
(***************************************************************************)
EXTENDS Integers, Sequences, FiniteSets, TLC

\* ------------------------------------------------------------------ bounds
\* longest key sequence handed to downloadAllKeys in the engine specification
MaxKeys == 2
\* largest value of the -t flag tried (the smallest is -1)
MaxThreads == 2
\* number of Write calls io.Copy needs for one response body
BodyChunks == 2

\* ----------------------------------------------------------------- strings
Empty == <<>>
Sep == "/"
U1 == <<"https:", "/", "/", "b1">>
U2 == <<"https:", "/", "/", "b2">>
KeyAF == <<"a", "/", "f">>
KeyBF == <<"b", "/", "f">>
KeyG == <<"g">>
KeyD == <<"d", "/">>
KeyH == <<"c", "/", "h">>

\* fmt.Sprintf("%s/%s", a, b)
Sprintf(a, b) == a \o <<Sep>> \o b

RECURSIVE StripTrailing(_)
StripTrailing(p) ==
    IF Len(p) > 0 /\ p[Len(p)] = Sep THEN StripTrailing(SubSeq(p, 1, Len(p) - 1))
    ELSE p

RECURSIVE LastSep(_, _)
LastSep(p, j) ==
    IF j >= 1 /\ p[j] # Sep THEN LastSep(p, j - 1) ELSE j

\* filepath.Base(key): "" gives ".", trailing separators are stripped, the
\* element after the last separator is taken, only separators gives "/"
Base(p) ==
    IF p = Empty THEN <<".">>
    ELSE LET q == StripTrailing(p)
             j == LastSep(q, Len(q))
             r == SubSeq(q, j + 1, Len(q))
         IN IF r = Empty THEN <<Sep>> ELSE r

\* strings.Contains(s, sub)
Contains(s, sub) ==
    \E a \in 0..(Len(s) - Len(sub)) : SubSeq(s, a + 1, a + Len(sub)) = sub

\* ------------------------------------------------------------------- state
VARIABLES
    flags,      \* the parsed command line: u, U, t, l, d, D, f
    pc,         \* position of the main goroutine
    urls,       \* main: the bucket URLs being listed
    ui,         \* main: number of URLs listed so far
    lres,       \* outcome of each listing request, in order
    keys,       \* main: the listed keys; downloadAllKeys: its keys argument
    stdout,     \* lines written to standard output
    did,        \* which of main's branches were taken: "print", "single", "bulk"
    bucketURL,  \* argument of downloadSingleKey / downloadAllKeys
    threads,    \* argument of downloadAllKeys
    i,          \* downloadAllKeys: number of keys the loop has taken
    sem,        \* number of elements in the channel sem (capacity threads)
    wg,         \* counter of the sync.WaitGroup
    bar,        \* the progress bar: started, total, current, finished
    tpc,        \* position of each caller of downloadAndSave (0: main, t: task t)
    got,        \* what http.Get returned to each caller: "neterr", "status", "ok"
    res,        \* how each caller's downloadAndSave ended: "early" (before
                \* saveToFile), "createfail", "copyfail", "saved"
    off,        \* write offset of each caller's open file
    reqs,       \* the URLs each caller has requested, in order
    fs          \* the working directory: file name -> content

vars == <<flags, pc, urls, ui, lres, keys, stdout, did, bucketURL, threads, i,
          sem, wg, bar, tpc, got, res, off, reqs, fs>>

mainVars == <<flags, urls, ui, lres, stdout, did>>

\* callers of downloadAndSave: 0 is downloadSingleKey on the main goroutine,
\* t >= 1 is the goroutine started for keys[t]
Tasks == 1..Len(keys)
Hole == <<"hole">>

\* the key and URL a caller hands to downloadAndSave
KeyOf(c) == IF c = 0 THEN flags.d ELSE keys[c]
UrlOf(c) == Sprintf(bucketURL, KeyOf(c))

\* http.Get answers only a URL that starts with a scheme it supports; for any
\* other URL it returns an error without sending a request
ValidUrl(url) == Len(url) >= 1 /\ url[1] = "https:"

\* the response body the server sends for a URL, as the chunks io.Copy writes
Body(url) == [n \in 1..BodyChunks |-> <<url, n>>]

\* where a caller continues when downloadAndSave returns
AfterReturn(c) == IF c = 0 THEN "ret" ELSE "inc"

\* ------------------------------------------------------------- local sink
\* a write of chunk ch at offset o of a file: bytes past the end of the file
\* leave a hole before them
WriteAt(content, o, ch) ==
    IF o < Len(content) THEN [content EXCEPT ![o + 1] = ch]
    ELSE content \o [n \in 1..(o - Len(content)) |-> Hole] \o <<ch>>

\* names os.Create can never create: they are directories
IsDir(name) == name \in {<<".">>, <<Sep>>}

\* os.Create(localFile): creates the file, or truncates the one that exists
Truncate(name) ==
    [n \in DOMAIN fs \cup {name} |-> IF n = name THEN Empty ELSE fs[n]]

\* HttpGet as it would be if a transport error were retried once
HttpGetRetry(c) ==
    /\ tpc[c] = "get"
    /\ reqs' = [reqs EXCEPT ![c] = Append(@, UrlOf(c))]
    /\ \/ /\ got' = [got EXCEPT ![c] = "neterr"]
          /\ IF reqs[c] = Empty
             THEN UNCHANGED <<res, tpc>>
             ELSE /\ res' = [res EXCEPT ![c] = "early"]
                  /\ tpc' = [tpc EXCEPT ![c] = AfterReturn(c)]
       \/ /\ ValidUrl(UrlOf(c))
          /\ got' = [got EXCEPT ![c] = "status"]
          /\ res' = [res EXCEPT ![c] = "early"]
          /\ tpc' = [tpc EXCEPT ![c] = AfterReturn(c)]
       \/ /\ ValidUrl(UrlOf(c))
          /\ got' = [got EXCEPT ![c] = "ok"]
          /\ res' = res
          /\ tpc' = [tpc EXCEPT ![c] = "create"]
    /\ UNCHANGED <<mainVars, pc, keys, bucketURL, threads, i, sem, wg, bar, off, fs>>

\* HttpGet as it would be if the local file were created before the request
HttpGetCreateFirst(c) ==
    /\ tpc[c] = "get"
    /\ reqs' = [reqs EXCEPT ![c] = Append(@, UrlOf(c))]
    /\ fs' = Truncate(Base(KeyOf(c)))
    /\ \/ /\ got' = [got EXCEPT ![c] = "neterr"]
          /\ res' = [res EXCEPT ![c] = "early"]
          /\ tpc' = [tpc EXCEPT ![c] = AfterReturn(c)]
       \/ /\ ValidUrl(UrlOf(c))
          /\ got' = [got EXCEPT ![c] = "status"]
          /\ res' = [res EXCEPT ![c] = "early"]
          /\ tpc' = [tpc EXCEPT ![c] = AfterReturn(c)]
       \/ /\ ValidUrl(UrlOf(c))
          /\ got' = [got EXCEPT ![c] = "ok"]
          /\ res' = res
          /\ tpc' = [tpc EXCEPT ![c] = "create"]
    /\ UNCHANGED <<mainVars, pc, keys, bucketURL, threads, i, sem, wg, bar, off>>

\* HttpGet as it would be without the return after the status check
HttpGetNoStatusReturn(c) ==
    /\ tpc[c] = "get"
    /\ reqs' = [reqs EXCEPT ![c] = Append(@, UrlOf(c))]
    /\ \/ /\ got' = [got EXCEPT ![c] = "neterr"]
          /\ res' = [res EXCEPT ![c] = "early"]
          /\ tpc' = [tpc EXCEPT ![c] = AfterReturn(c)]
       \/ /\ ValidUrl(UrlOf(c))
          /\ got' = [got EXCEPT ![c] = "status"]
          /\ res' = res
          /\ tpc' = [tpc EXCEPT ![c] = "create"]
       \/ /\ ValidUrl(UrlOf(c))
          /\ got' = [got EXCEPT ![c] = "ok"]
          /\ res' = res
          /\ tpc' = [tpc EXCEPT ![c] = "create"]
    /\ UNCHANGED <<mainVars, pc, keys, bucketURL, threads, i, sem, wg, bar, off, fs>>

\* downloadAndSave: http.Get(url) and its two early returns
HttpGet(c) ==
    /\ tpc[c] = "get"
    /\ reqs' = [reqs EXCEPT ![c] = Append(@, UrlOf(c))]
    /\ \/ /\ got' = [got EXCEPT ![c] = "neterr"]
          /\ res' = [res EXCEPT ![c] = "early"]
          /\ tpc' = [tpc EXCEPT ![c] = AfterReturn(c)]
       \/ /\ ValidUrl(UrlOf(c))
          /\ got' = [got EXCEPT ![c] = "status"]
          /\ res' = [res EXCEPT ![c] = "early"]
          /\ tpc' = [tpc EXCEPT ![c] = AfterReturn(c)]
       \/ /\ ValidUrl(UrlOf(c))
          /\ got' = [got EXCEPT ![c] = "ok"]
          /\ res' = res
          /\ tpc' = [tpc EXCEPT ![c] = "create"]
    /\ UNCHANGED <<mainVars, pc, keys, bucketURL, threads, i, sem, wg, bar, off, fs>>

\* saveToFile: os.Create(filepath.Base(key))
Create(c) ==
    /\ tpc[c] = "create"
    /\ \/ /\ res' = [res EXCEPT ![c] = "createfail"]
          /\ tpc' = [tpc EXCEPT ![c] = AfterReturn(c)]
          /\ UNCHANGED <<fs, off>>
       \/ /\ ~IsDir(Base(KeyOf(c)))
          /\ fs' = Truncate(Base(KeyOf(c)))
          /\ off' = [off EXCEPT ![c] = 0]
          /\ res' = res
          /\ tpc' = [tpc EXCEPT ![c] = "copy"]
    /\ UNCHANGED <<mainVars, pc, keys, bucketURL, threads, i, sem, wg, bar, got, reqs>>

\* saveToFile: one round of io.Copy(file, content): the next chunk of the body
\* is written at the file's offset (after the last one io.Copy sees the end of
\* the body and saveToFile closes the file and returns), or the copy fails
Copy(c) ==
    /\ tpc[c] = "copy"
    /\ LET name == Base(KeyOf(c))
           body == Body(UrlOf(c))
       IN \/ /\ fs' = [fs EXCEPT ![name] = WriteAt(@, off[c], body[off[c] + 1])]
             /\ IF off[c] + 1 < Len(body)
                THEN /\ off' = [off EXCEPT ![c] = @ + 1]
                     /\ UNCHANGED <<res, tpc>>
                ELSE /\ off' = [off EXCEPT ![c] = 0]
                     /\ res' = [res EXCEPT ![c] = "saved"]
                     /\ tpc' = [tpc EXCEPT ![c] = AfterReturn(c)]
          \/ /\ res' = [res EXCEPT ![c] = "copyfail"]
             /\ tpc' = [tpc EXCEPT ![c] = AfterReturn(c)]
             /\ off' = [off EXCEPT ![c] = 0]
             /\ fs' = fs
    /\ UNCHANGED <<mainVars, pc, keys, bucketURL, threads, i, sem, wg, bar, got, reqs>>

\* -------------------------------------------------------- downloadAllKeys
NoBar == [started |-> FALSE, total |-> 0, current |-> 0, finished |-> FALSE]

\* EnterAll as it would be with a wg.Add(1) before the loop
EnterAllAddFirst ==
    /\ pc = "bulk"
    /\ bucketURL' = flags.u
    /\ threads' = flags.t
    /\ bar' = [started |-> TRUE, total |-> Len(keys), current |-> 0, finished |-> FALSE]
    /\ pc' = IF flags.t < 0 THEN "panic" ELSE "loop"
    /\ i' = 0 /\ sem' = 0 /\ wg' = 1
    /\ UNCHANGED <<mainVars, keys, tpc, got, res, off, reqs, fs>>

\* pb.StartNew(len(keys)); make(chan struct{}, threads), which panics for a
\* negative capacity
\* EnterAll as it would be if a budget below 1 were raised to 1
EnterAllAtLeastOne ==
    /\ pc = "bulk"
    /\ bucketURL' = flags.u
    /\ threads' = IF flags.t < 1 THEN 1 ELSE flags.t
    /\ bar' = [started |-> TRUE, total |-> Len(keys), current |-> 0, finished |-> FALSE]
    /\ pc' = "loop"
    /\ i' = 0 /\ sem' = 0 /\ wg' = 0
    /\ UNCHANGED <<mainVars, keys, tpc, got, res, off, reqs, fs>>

EnterAll ==
    /\ pc = "bulk"
    /\ bucketURL' = flags.u
    /\ threads' = flags.t
    /\ bar' = [started |-> TRUE, total |-> Len(keys), current |-> 0, finished |-> FALSE]
    /\ pc' = IF flags.t < 0 THEN "panic" ELSE "loop"
    /\ i' = 0 /\ sem' = 0 /\ wg' = 0
    /\ UNCHANGED <<mainVars, keys, tpc, got, res, off, reqs, fs>>

\* LoopNext as it would be without the send on sem
LoopNextNoAcquire ==
    /\ pc = "loop"
    /\ \/ /\ i < Len(keys)
          /\ i' = i + 1
          /\ wg' = wg + 1
          /\ pc' = "go"
       \/ /\ i = Len(keys)
          /\ pc' = "wait"
          /\ UNCHANGED <<i, wg>>
    /\ UNCHANGED <<mainVars, keys, bucketURL, threads, sem, bar, tpc, got, res, off, reqs, fs>>

\* for _, key := range keys { wg.Add(1)
LoopNext ==
    /\ pc = "loop"
    /\ \/ /\ i < Len(keys)
          /\ i' = i + 1
          /\ wg' = wg + 1
          /\ pc' = "acquire"
       \/ /\ i = Len(keys)
          /\ pc' = "wait"
          /\ UNCHANGED <<i, wg>>
    /\ UNCHANGED <<mainVars, keys, bucketURL, threads, sem, bar, tpc, got, res, off, reqs, fs>>

\* Acquire as it would be with a channel of capacity threads - 1
AcquireOneLess ==
    /\ pc = "acquire"
    /\ sem < threads - 1
    /\ sem' = sem + 1
    /\ pc' = "go"
    /\ UNCHANGED <<mainVars, keys, bucketURL, threads, i, wg, bar, tpc, got, res, off, reqs, fs>>

\* Acquire as it would be if the send never blocked (a channel made too large)
AcquireNoWait ==
    /\ pc = "acquire"
    /\ sem' = sem + 1
    /\ pc' = "go"
    /\ UNCHANGED <<mainVars, keys, bucketURL, threads, i, wg, bar, tpc, got, res, off, reqs, fs>>

\* sem <- struct{}{}: blocks while the channel holds threads elements
Acquire ==
    /\ pc = "acquire"
    /\ sem < threads
    /\ sem' = sem + 1
    /\ pc' = "go"
    /\ UNCHANGED <<mainVars, keys, bucketURL, threads, i, wg, bar, tpc, got, res, off, reqs, fs>>

\* Go as it would be if the loop handed out the keys from the end of the slice
GoFromEnd ==
    /\ pc = "go"
    /\ tpc' = [tpc EXCEPT ![Len(keys) + 1 - i] = "get"]
    /\ pc' = "loop"
    /\ UNCHANGED <<mainVars, keys, bucketURL, threads, i, sem, wg, bar, got, res, off, reqs, fs>>

\* Go as it would be if progress were also counted at dispatch
GoCountsDispatch ==
    /\ pc = "go"
    /\ tpc' = [tpc EXCEPT ![i] = "get"]
    /\ bar' = [bar EXCEPT !.current = @ + 1]
    /\ pc' = "loop"
    /\ UNCHANGED <<mainVars, keys, bucketURL, threads, i, sem, wg, got, res, off, reqs, fs>>

\* go func(k string) {...}(key)
Go ==
    /\ pc = "go"
    /\ tpc' = [tpc EXCEPT ![i] = "get"]
    /\ pc' = "loop"
    /\ UNCHANGED <<mainVars, keys, bucketURL, threads, i, sem, wg, bar, got, res, off, reqs, fs>>

\* Increment as it would be if only a saved file counted as progress
IncrementOnSuccess(c) ==
    /\ tpc[c] = "inc"
    /\ bar' = [bar EXCEPT !.current = IF res[c] = "saved" THEN @ + 1 ELSE @]
    /\ tpc' = [tpc EXCEPT ![c] = "release"]
    /\ UNCHANGED <<mainVars, pc, keys, bucketURL, threads, i, sem, wg, got, res, off, reqs, fs>>

\* bar.Increment(): an atomic add of 1 (pb/v3 adds with sync/atomic)
Increment(c) ==
    /\ tpc[c] = "inc"
    /\ bar' = [bar EXCEPT !.current = @ + 1]
    /\ tpc' = [tpc EXCEPT ![c] = "release"]
    /\ UNCHANGED <<mainVars, pc, keys, bucketURL, threads, i, sem, wg, got, res, off, reqs, fs>>

\* Release as it would be without the receive from sem
ReleaseKeepsSlot(c) ==
    /\ tpc[c] = "release"
    /\ sem' = sem
    /\ tpc' = [tpc EXCEPT ![c] = "wgdone"]
    /\ UNCHANGED <<mainVars, pc, keys, bucketURL, threads, i, wg, bar, got, res, off, reqs, fs>>

\* <-sem
Release(c) ==
    /\ tpc[c] = "release"
    /\ sem > 0
    /\ sem' = sem - 1
    /\ tpc' = [tpc EXCEPT ![c] = "wgdone"]
    /\ UNCHANGED <<mainVars, pc, keys, bucketURL, threads, i, wg, bar, got, res, off, reqs, fs>>

\* defer wg.Done()
WgDone(c) ==
    /\ tpc[c] = "wgdone"
    /\ wg' = wg - 1
    /\ tpc' = [tpc EXCEPT ![c] = "exit"]
    /\ UNCHANGED <<mainVars, pc, keys, bucketURL, threads, i, sem, bar, got, res, off, reqs, fs>>

\* WaitAll as it would be without wg.Wait()
WaitAllNoWait ==
    /\ pc = "wait"
    /\ bar' = [bar EXCEPT !.finished = TRUE]
    /\ pc' = "exit"
    /\ UNCHANGED <<mainVars, keys, bucketURL, threads, i, sem, wg, tpc, got, res, off, reqs, fs>>

\* wg.Wait(); bar.Finish(); return
WaitAll ==
    /\ pc = "wait"
    /\ wg = 0
    /\ bar' = [bar EXCEPT !.finished = TRUE]
    /\ pc' = "exit"
    /\ UNCHANGED <<mainVars, keys, bucketURL, threads, i, sem, wg, tpc, got, res, off, reqs, fs>>

\* ------------------------------------------------ the engine specification
\* what a bucket may list: two keys that share their final path segment, or
\* keys whose final path segments all differ
Listings == {<<KeyAF, KeyBF, KeyG, KeyH>>, <<KeyG, KeyAF, KeyD, KeyH>>}
\* the first n keys of a listing, as getS3Keys cuts it at the limit
KeySeqs == {SubSeq(l, 1, n) : l \in Listings, n \in 0..MaxKeys}
ThreadCounts == (-1)..MaxThreads
DefaultLimit == 50

\* main is about to call downloadAllKeys(*urlFlag, keys, *threads) with the
\* keys of one listing (-u U1 -D) in an empty working directory
Init ==
    /\ \E t \in ThreadCounts :
          flags = [u |-> U1, U |-> Empty, t |-> t, l |-> DefaultLimit,
                   d |-> Empty, D |-> TRUE, f |-> Empty]
    /\ pc = "bulk"
    /\ urls = <<U1>> /\ ui = 1 /\ lres = <<"ok">>
    /\ keys \in KeySeqs
    /\ stdout = Empty
    /\ did = {"bulk"}
    /\ bucketURL = Empty /\ threads = 0
    /\ i = 0 /\ sem = 0 /\ wg = 0
    /\ bar = NoBar
    /\ tpc = [c \in 0..Len(keys) |-> "idle"]
    /\ got = [c \in 0..Len(keys) |-> "none"]
    /\ res = [c \in 0..Len(keys) |-> "none"]
    /\ off = [c \in 0..Len(keys) |-> 0]
    /\ reqs = [c \in 0..Len(keys) |-> Empty]
    /\ fs = <<>>

Next ==
    \/ EnterAll \/ LoopNext \/ Acquire \/ Go \/ WaitAll
    \/ \E c \in DOMAIN tpc : HttpGet(c)
    \/ \E c \in DOMAIN tpc : Create(c)
    \/ \E c \in DOMAIN tpc : Copy(c)
    \/ \E c \in DOMAIN tpc : Increment(c)
    \/ \E c \in DOMAIN tpc : Release(c)
    \/ \E c \in DOMAIN tpc : WgDone(c)

Spec == Init /\ [][Next]_vars

\* the Go scheduler runs every runnable goroutine, and every fetch returns
FairSpec == Spec /\ WF_vars(Next)

\* -------------------------------------------------------------------- main
\* largest number of lines of the -U file
MaxUrls == 2
\* largest value of the -l flag tried (the smallest is -1)
MaxLimit == 2

\* the keys each bucket lists, in listing order
Bucket(url) == IF url = U1 THEN <<KeyAF, KeyG>> ELSE <<KeyBF>>

\* the lines of the -U file; a file that cannot be opened gives no URL
UrlLists == {<<U1, U2, U2>>, <<U2, U1, U2>>}
UrlFiles == {SubSeq(l, 1, n) : l \in UrlLists, n \in 0..MaxUrls}

\* ExtractKeys as it would be with the test i > limit
RECURSIVE ExtractKeysOffByOne(_, _, _, _)
ExtractKeysOffByOne(contents, n, limit, bucket) ==
    IF n >= Len(contents) \/ n > limit THEN Empty
    ELSE LET key == contents[n + 1]
         IN <<IF flags.U # Empty THEN Sprintf(bucket, key) ELSE key>>
            \o ExtractKeysOffByOne(contents, n + 1, limit, bucket)

\* getS3Keys, after the response is parsed: the loop over result.Contents from
\* index n, which stops at the limit and prefixes each key when -U is set
RECURSIVE ExtractKeys(_, _, _, _)
ExtractKeys(contents, n, limit, bucket) ==
    IF n >= Len(contents) \/ n >= limit THEN Empty
    ELSE LET key == contents[n + 1]
         IN <<IF flags.U # Empty THEN Sprintf(bucket, key) ELSE key>>
            \o ExtractKeys(contents, n + 1, limit, bucket)

\* flag.Parse(), the -u / -U check, and the choice of the URLs to list
Start ==
    /\ pc = "start"
    /\ \/ /\ flags.u = Empty /\ flags.U = Empty
          /\ pc' = "fatal"
          /\ urls' = urls
       \/ /\ flags.u # Empty
          /\ urls' = <<flags.u>>
          /\ pc' = "list"
       \/ /\ flags.u = Empty /\ flags.U # Empty
          /\ urls' \in UrlFiles
          /\ pc' = "list"
    /\ UNCHANGED <<flags, ui, lres, keys, stdout, did, bucketURL, threads, i,
                   sem, wg, bar, tpc, got, res, off, reqs, fs>>

\* getS3Keys(bucketURL, limit, prefix): nil when the request fails, the status
\* is not 200, the body cannot be read or the XML cannot be parsed
GetS3Keys(bucket, limit, r) ==
    IF r \in {"neterr", "status", "readerr", "xmlerr"} THEN Empty
    ELSE ExtractKeys(Bucket(bucket), 0, limit, bucket)

\* keys = append(keys, getS3Keys(bucketURL, *limit, bucketURL)...) for the next
\* URL; lres notes whether the listing was parsed ("ok") or nil was returned
List ==
    /\ pc = "list"
    /\ ui < Len(urls)
    /\ \E r \in {"neterr", "status", "readerr", "xmlerr", "ok"} :
          /\ lres' = Append(lres, IF r = "ok" THEN "ok" ELSE "nil")
          /\ keys' = keys \o GetS3Keys(urls[ui + 1], flags.l, r)
    /\ ui' = ui + 1
    /\ UNCHANGED <<flags, pc, urls, stdout, did, bucketURL, threads, i,
                   sem, wg, bar, tpc, got, res, off, reqs, fs>>

\* the lines "Key: <key>" for the keys that pass the filter
RECURSIVE KeyLines(_, _)
KeyLines(ks, f) ==
    IF ks = Empty THEN Empty
    ELSE (IF f = Empty \/ Contains(Head(ks), f) THEN <<<<"Key:", Head(ks)>>>> ELSE Empty)
         \o KeyLines(Tail(ks), f)

\* if *downloadKey == "" && !*downloadAll { print the keys }
PrintKeys ==
    /\ pc = "list"
    /\ ui = Len(urls)
    /\ IF flags.d = Empty /\ ~flags.D
       THEN /\ stdout' = stdout \o KeyLines(keys, flags.f)
            /\ did' = did \cup {"print"}
       ELSE UNCHANGED <<stdout, did>>
    /\ pc' = "download"
    /\ UNCHANGED <<flags, urls, ui, lres, keys, bucketURL, threads, i,
                   sem, wg, bar, tpc, got, res, off, reqs, fs>>

\* Download as it would be if -D were tested before -d
DownloadBulkFirst ==
    /\ pc = "download"
    /\ \/ /\ flags.d # Empty /\ ~flags.D
          /\ bucketURL' = flags.u
          /\ tpc' = [tpc EXCEPT ![0] = "get"]
          /\ pc' = "single"
          /\ did' = did \cup {"single"}
          /\ UNCHANGED <<got, res, off, reqs>>
       \/ /\ flags.D
          /\ pc' = "bulk"
          /\ did' = did \cup {"bulk"}
          /\ tpc' = [c \in 0..Len(keys) |-> "idle"]
          /\ got' = [c \in 0..Len(keys) |-> "none"]
          /\ res' = [c \in 0..Len(keys) |-> "none"]
          /\ off' = [c \in 0..Len(keys) |-> 0]
          /\ reqs' = [c \in 0..Len(keys) |-> Empty]
          /\ UNCHANGED bucketURL
       \/ /\ flags.d = Empty /\ ~flags.D
          /\ pc' = "exit"
          /\ UNCHANGED <<did, bucketURL, tpc, got, res, off, reqs>>
    /\ UNCHANGED <<flags, urls, ui, lres, keys, stdout, threads, i, sem, wg, bar, fs>>

\* if *downloadKey != "" { downloadSingleKey } else if *downloadAll { downloadAllKeys }
Download ==
    /\ pc = "download"
    /\ \/ /\ flags.d # Empty
          /\ bucketURL' = flags.u
          /\ tpc' = [tpc EXCEPT ![0] = "get"]
          /\ pc' = "single"
          /\ did' = did \cup {"single"}
          /\ UNCHANGED <<got, res, off, reqs>>
       \/ /\ flags.d = Empty /\ flags.D
          /\ pc' = "bulk"
          /\ did' = did \cup {"bulk"}
          /\ tpc' = [c \in 0..Len(keys) |-> "idle"]
          /\ got' = [c \in 0..Len(keys) |-> "none"]
          /\ res' = [c \in 0..Len(keys) |-> "none"]
          /\ off' = [c \in 0..Len(keys) |-> 0]
          /\ reqs' = [c \in 0..Len(keys) |-> Empty]
          /\ UNCHANGED bucketURL
       \/ /\ flags.d = Empty /\ ~flags.D
          /\ pc' = "exit"
          /\ UNCHANGED <<did, bucketURL, tpc, got, res, off, reqs>>
    /\ UNCHANGED <<flags, urls, ui, lres, keys, stdout, threads, i, sem, wg, bar, fs>>

\* SingleDone as it would be if only a saved file were reported
SingleDoneOnSuccess ==
    /\ pc = "single"
    /\ tpc[0] = "ret"
    /\ stdout' = IF res[0] = "saved" THEN Append(stdout, <<"Downloaded", flags.d>>) ELSE stdout
    /\ pc' = "exit"
    /\ UNCHANGED <<flags, urls, ui, lres, keys, did, bucketURL, threads, i,
                   sem, wg, bar, tpc, got, res, off, reqs, fs>>

\* downloadSingleKey, after downloadAndSave has returned: the completion line
SingleDone ==
    /\ pc = "single"
    /\ tpc[0] = "ret"
    /\ stdout' = Append(stdout, <<"Downloaded", flags.d>>)
    /\ pc' = "exit"
    /\ UNCHANGED <<flags, urls, ui, lres, keys, did, bucketURL, threads, i,
                   sem, wg, bar, tpc, got, res, off, reqs, fs>>

MainThreadCounts == {-1, 0, 1}
Limits == (-1)..MaxLimit
OldFile == <<<<"old", 1>>>>
\* the working directory main starts in: it holds a file named f already
OldDir == [n \in {<<"f">>} |-> OldFile]

\* the start of main, for every command line tried
MainInit ==
    /\ flags \in [u : {Empty, U1}, U : {Empty, <<"buckets.txt">>}, t : MainThreadCounts,
                  l : Limits, d : {Empty, KeyAF}, D : BOOLEAN, f : {Empty, <<"f">>}]
    /\ pc = "start"
    /\ urls = Empty /\ ui = 0 /\ lres = Empty
    /\ keys = Empty
    /\ stdout = Empty
    /\ did = {}
    /\ bucketURL = Empty /\ threads = 0
    /\ i = 0 /\ sem = 0 /\ wg = 0
    /\ bar = NoBar
    /\ tpc = [c \in {0} |-> "idle"]
    /\ got = [c \in {0} |-> "none"]
    /\ res = [c \in {0} |-> "none"]
    /\ off = [c \in {0} |-> 0]
    /\ reqs = [c \in {0} |-> Empty]
    /\ fs = OldDir

MainNext ==
    \/ Start \/ List \/ PrintKeys \/ Download \/ SingleDone
    \/ EnterAll \/ LoopNext \/ Acquire \/ Go \/ WaitAll
    \/ \E c \in DOMAIN tpc : HttpGet(c)
    \/ \E c \in DOMAIN tpc : Create(c)
    \/ \E c \in DOMAIN tpc : Copy(c)
    \/ \E c \in DOMAIN tpc : Increment(c)
    \/ \E c \in DOMAIN tpc : Release(c)
    \/ \E c \in DOMAIN tpc : WgDone(c)

MainSpec == MainInit /\ [][MainNext]_vars

\* ------------------------------------------------------------------ claims
\* the tasks that have been started and have not yet released their slot
InFlight == {t \in Tasks \cap DOMAIN tpc : tpc[t] \in {"get", "create", "copy", "inc", "release"}}
\* the tasks that have incremented the progress bar
Counted == {t \in Tasks \cap DOMAIN tpc : tpc[t] \in {"release", "wgdone", "exit"}}
\* downloadAllKeys was called and has returned
Returned == pc = "exit" /\ "bulk" \in did

\* C1: with a concurrency budget N >= 1, the number of tasks that have started
\* their fetch and not yet released their semaphore slot is at most N, in
\* every reachable state of downloadAllKeys.
C1_InFlightAtMostN == threads >= 1 => Cardinality(InFlight) <= threads

\* all the slots are taken and the dispatch loop waits for one
C1_Witness ==
    /\ threads >= 1
    /\ Cardinality(InFlight) = threads
    /\ pc = "acquire"
    /\ \E t \in InFlight : tpc[t] = "copy"

\* C2: when downloadAllKeys returns the progress counter equals the number of
\* keys, every task having incremented it once whether its fetch was saved or
\* failed; and at every moment the counter equals the number of tasks that
\* have passed their increment.
C2_CounterEqualsK ==
    /\ bar.current = Cardinality(Counted)
    /\ Returned => /\ bar.current = Len(keys)
                   /\ \A t \in Tasks : tpc[t] = "exit" /\ res[t] # "none"

\* a run of two keys has returned, one fetch failed and the other's copy failed
C2_Witness ==
    /\ Returned
    /\ Len(keys) = 2
    /\ bar.current = 2
    /\ \E t, r \in Tasks : got[t] \in {"neterr", "status"} /\ res[r] \in {"createfail", "copyfail"}

\* C3: with N >= 1 and fair scheduling downloadAllKeys eventually returns, and
\* when it has returned no task is still running and no slot is held.
C3_ReturnsAfterAllTasks ==
    /\ [](Returned => /\ \A t \in Tasks : tpc[t] = "exit"
                      /\ sem = 0
                      /\ wg = 0)
    /\ ((pc = "bulk" /\ flags.t >= 1) ~> Returned)

\* a run in which the loop had to wait for a slot has returned
C3_Witness ==
    /\ Returned
    /\ Len(keys) >= 2
    /\ threads = 1
    /\ \A t \in Tasks : tpc[t] = "exit"

\* the final path segments of the keys are pairwise distinct
DistinctNames == \A t, r \in Tasks : t # r => Base(keys[t]) # Base(keys[r])
\* no os.Create and no io.Copy has failed
WritesSucceed == \A t \in Tasks : res[t] \notin {"createfail", "copyfail"}

\* C4: for keys with pairwise distinct final path segments, and local writes
\* that succeed, no file is ever created for a key whose fetch failed, and
\* when downloadAllKeys has returned every key was fetched once, the files
\* that exist are exactly those named by the final path segment of the keys
\* whose fetch returned 200, and each holds the full body of that fetch.
C4_FilesForExactlyThe200s ==
    (DistinctNames /\ WritesSucceed) =>
        /\ \A t \in Tasks : got[t] \in {"neterr", "status"} => Base(keys[t]) \notin DOMAIN fs
        /\ Returned =>
              /\ \A t \in Tasks : got[t] # "none" /\ Len(reqs[t]) = 1
              /\ DOMAIN fs = {Base(keys[t]) : t \in {r \in Tasks : got[r] = "ok"}}
              /\ \A t \in Tasks : got[t] = "ok" => fs[Base(keys[t])] = Body(reqs[t][1])

\* the first key's fetch failed, the second key was still fetched and saved
C4_Witness ==
    /\ Returned
    /\ Len(keys) = 2
    /\ DistinctNames
    /\ got[1] = "status"
    /\ res[2] = "saved"
    /\ DOMAIN fs = {Base(keys[2])}

\* C5: when two distinct keys share their final path segment and both fetches
\* are saved, after downloadAllKeys has returned the one file of that name
\* holds the complete body of one of the two fetches, never a mixture.
C5_LastWriterWins ==
    Returned =>
        \A t, r \in Tasks :
            (/\ keys[t] # keys[r]
             /\ Base(keys[t]) = Base(keys[r])
             /\ res[t] = "saved" /\ res[r] = "saved"
             /\ \A q \in Tasks \ {t, r} : Base(keys[q]) # Base(keys[t]))
            => /\ Base(keys[t]) \in DOMAIN fs
               /\ fs[Base(keys[t])] \in {Body(reqs[t][1]), Body(reqs[r][1])}

\* C6: a downloadAndSave that ends in a transport error or a non-200 status
\* changes no file (one that exists under the key's final path segment keeps
\* its content) and returns to its caller, which goes on.
C6_FailedFetchTouchesNoFile ==
    [][\A c \in DOMAIN tpc :
          (tpc[c] = "get" /\ got'[c] \in {"neterr", "status"})
          => /\ fs' = fs
             /\ res'[c] = "early"
             /\ tpc'[c] = AfterReturn(c)
             /\ pc' = pc]_vars

\* a single-key download of a/f got a non-200 status: the old file f is as it was
C6_Witness ==
    /\ pc = "exit"
    /\ flags.d = KeyAF
    /\ got[0] = "status"
    /\ res[0] = "early"
    /\ fs = OldDir

\* C7: for an empty key sequence and N >= 1, downloadAllKeys starts no task,
\* never waits for a slot or for the wait group, leaves the counter at 0,
\* writes no file, and returns.
C7_EmptyRunIsNoOp ==
    /\ []((Len(keys) = 0 /\ flags.t >= 1) =>
             /\ pc \notin {"acquire", "go", "panic"}
             /\ sem = 0 /\ wg = 0
             /\ bar.current = 0
             /\ fs = <<>>
             /\ \A c \in DOMAIN tpc : tpc[c] = "idle" /\ reqs[c] = Empty)
    /\ ((Len(keys) = 0 /\ flags.t >= 1 /\ pc = "bulk") ~> Returned)

\* the run over no key has returned with a finished bar of total 0
C7_Witness ==
    /\ Len(keys) = 0
    /\ flags.t >= 1
    /\ Returned
    /\ bar = [started |-> TRUE, total |-> 0, current |-> 0, finished |-> TRUE]

\* C8: downloadSingleKey calls downloadAndSave once, on the main goroutine,
\* for baseURL + "/" + key, takes no slot and leaves the progress bar alone,
\* and prints 'Downloaded <key>' once after the call has returned, whether or
\* not a file was written.
C8_SingleKeyDownload ==
    "single" \in did =>
        /\ DOMAIN tpc = {0}
        /\ sem = 0
        /\ bar = NoBar
        /\ Len(reqs[0]) <= 1
        /\ reqs[0] # Empty => reqs[0][1] = flags.u \o <<"/">> \o flags.d
        /\ stdout = IF pc = "exit" THEN <<<<"Downloaded", flags.d>>>> ELSE Empty
        /\ pc = "exit" => Len(reqs[0]) = 1 /\ res[0] # "none"

\* the completion line was printed although the fetch failed and nothing was saved
C8_Witness ==
    /\ "single" \in did
    /\ pc = "exit"
    /\ got[0] = "neterr"
    /\ fs = OldDir
    /\ stdout = <<<<"Downloaded", flags.d>>>>

\* the lines main prints for the keys that contain the filter
FilteredLines ==
    LET sel == SelectSeq(keys, LAMBDA k : flags.f = Empty \/ Contains(k, flags.f))
    IN [n \in 1..Len(sel) |-> <<"Key:", sel[n]>>]

\* C9: after the listing main does exactly one of: print the keys (those that
\* contain the filter), if and only if neither -d nor -D is given; the
\* single-key download, if and only if -d is given; the bulk download, if and
\* only if -D is given and -d is not. The bulk download fetches every listed
\* key, whatever the filter.
C9_ExactlyOneMode ==
    /\ pc = "download" => did = IF flags.d = Empty /\ ~flags.D THEN {"print"} ELSE {}
    /\ pc \notin {"start", "list", "download", "fatal"} =>
          /\ did = IF flags.d # Empty THEN {"single"}
                   ELSE IF flags.D THEN {"bulk"} ELSE {"print"}
          /\ stdout = IF "print" \in did THEN FilteredLines
                      ELSE IF "single" \in did /\ pc = "exit" THEN <<<<"Downloaded", flags.d>>>>
                      ELSE Empty
          /\ "bulk" \in did => DOMAIN tpc = 0..Len(keys)
          /\ Returned => \A t \in Tasks : reqs[t] = <<bucketURL \o <<"/">> \o keys[t]>>

\* a bulk run with a filter set has fetched and saved a key the filter excludes
C9_Witness ==
    /\ Returned
    /\ flags.f # Empty
    /\ \E t \in Tasks : ~Contains(keys[t], flags.f) /\ res[t] = "saved"

\* the keys source j contributes: none if its listing failed, else the first
\* min(limit, n) keys it lists, each in the form getS3Keys gives it (with the
\* bucket URL and "/" before it when -U is set)
Contribution(j) ==
    LET b == Bucket(urls[j])
        m == IF flags.l < Len(b) THEN flags.l ELSE Len(b)
    IN IF lres[j] # "ok" THEN Empty
       ELSE [n \in 1..m |-> IF flags.U # Empty THEN urls[j] \o <<"/">> \o b[n] ELSE b[n]]

RECURSIVE Contributions(_)
Contributions(j) == IF j = 0 THEN Empty ELSE Contributions(j - 1) \o Contribution(j)

\* C10: the key sequence is the concatenation, in the order of the URL list,
\* of the first min(limit, n_i) keys of each source in listing order; a source
\* whose listing fails contributes nothing, and every source is listed.
C10_KeysAreConcatenation ==
    /\ Len(lres) = ui
    /\ ui <= Len(urls)
    /\ keys = Contributions(ui)
    /\ pc \notin {"start", "list"} => ui = Len(urls)

\* the first source failed; the second, cut at limit 1, still gave its first key
C10_Witness ==
    /\ pc = "download"
    /\ flags.l = 1
    /\ urls = <<U2, U1>>
    /\ lres = <<"nil", "ok">>
    /\ keys = <<U1 \o <<"/">> \o KeyAF>>

\* the tasks that have given their slot back
Released == {t \in Tasks \cap DOMAIN tpc : tpc[t] \in {"wgdone", "exit"}}
\* the tasks that have been started
Dispatched == {t \in Tasks \cap DOMAIN tpc : tpc[t] # "idle"}

\* C11: a task's slot is acquired before the task is started; it is released
\* only after downloadAndSave has returned and the counter was incremented;
\* the wait group is signalled only after the release; and the slots in the
\* channel are exactly those of the tasks started and not yet released (plus
\* the one just acquired for the task about to start).
C11_SlotDiscipline ==
    /\ sem = Cardinality(InFlight) + (IF pc = "go" THEN 1 ELSE 0)
    /\ wg = i - Cardinality({t \in Tasks \cap DOMAIN tpc : tpc[t] = "exit"})
    /\ bar.current >= Cardinality(Released)
    /\ \A t \in Tasks \cap DOMAIN tpc :
          /\ tpc[t] # "idle" => t < i \/ (t = i /\ pc \notin {"acquire", "go"})
          /\ tpc[t] \in {"release", "wgdone", "exit"} => res[t] # "none"
          /\ tpc[t] = "exit" => t \in Released

\* one task has released its slot and not yet signalled the wait group, while
\* another still holds its slot and copies
C11_Witness ==
    /\ \E t \in Tasks : tpc[t] = "wgdone"
    /\ \E t \in Tasks : tpc[t] = "copy"
    /\ sem = 1
    /\ wg = 2

\* C12: for N >= 1 the number of tasks dispatched minus the progress counter
\* is at most N, and while all N slots are held the dispatch loop cannot take
\* a slot.
C12_Backpressure ==
    threads >= 1 =>
        /\ Cardinality(Dispatched) - bar.current <= threads
        /\ (pc = "acquire" /\ sem = threads) => ~ENABLED Acquire

\* the loop waits for a slot with N tasks dispatched and none counted yet
C12_Witness ==
    /\ threads >= 1
    /\ pc = "acquire"
    /\ sem = threads
    /\ Cardinality(Dispatched) - bar.current = threads

\* the tasks whose downloadAndSave has returned
Fetched == {t \in Tasks \cap DOMAIN tpc : res[t] # "none"}

\* C13: in a bulk run the bar's total is the number of keys and its count is 0
\* until a task is dispatched; the count changes only by +1, never exceeds the
\* number of tasks whose downloadAndSave has returned, and never exceeds K.
C13_ProgressCount ==
    /\ [](bar.started =>
             /\ bar.total = Len(keys)
             /\ Dispatched = {} => bar.current = 0
             /\ bar.current <= Cardinality(Fetched)
             /\ bar.current <= Len(keys))
    /\ [][bar.started => bar'.current \in {bar.current, bar.current + 1}]_vars

\* both tasks' downloadAndSave have returned and only one is counted so far
C13_Witness ==
    /\ bar.started
    /\ bar.total = 2
    /\ bar.current = 1
    /\ Cardinality(Fetched) = 2

\* the place of a position in a task's life
Rank(p) ==
    CASE p = "idle" -> 0
      [] p = "get" -> 1
      [] p = "create" -> 2
      [] p = "copy" -> 3
      [] p = "inc" -> 4
      [] p = "release" -> 5
      [] p = "wgdone" -> 6
      [] p = "exit" -> 7

\* C14: in a bulk run every occurrence of a key is fetched exactly once: a
\* task only moves forward (submitted, running, completed), a completed task
\* stays completed, and a failed fetch is not requested again.
C14_FetchedOnce ==
    /\ [](\A t \in Tasks \cap DOMAIN tpc :
             /\ Len(reqs[t]) <= 1
             /\ Len(reqs[t]) = IF tpc[t] \in {"idle", "get"} THEN 0 ELSE 1
             /\ Returned => Len(reqs[t]) = 1)
    /\ [][\A t \in Tasks \cap DOMAIN tpc :
             /\ Rank(tpc'[t]) >= Rank(tpc[t])
             /\ res[t] # "none" => res'[t] = res[t] /\ reqs'[t] = reqs[t]]_vars

\* a run has returned in which one fetch failed and was requested once
C14_Witness ==
    /\ Returned
    /\ \E t \in Tasks : got[t] = "neterr" /\ Len(reqs[t]) = 1 /\ tpc[t] = "exit"

\* C15: tasks are dispatched in the order of the key sequence (the tasks
\* started are always the first ones of the sequence); the order in which they
\* complete is free: with N >= 2 a later task can complete before an earlier one.
C15_DispatchInKeyOrder ==
    /\ \A t \in Tasks \cap DOMAIN tpc : tpc[t] # "idle" => \A r \in 1..t : tpc[r] # "idle"
    /\ Dispatched = 1..(IF pc \in {"acquire", "go"} THEN i - 1 ELSE i)

\* the second task has completed while the first is still waiting for its response
C15_Witness ==
    /\ threads >= 2
    /\ Len(keys) >= 2
    /\ tpc[1] = "get"
    /\ tpc[2] = "exit"

\* the smaller of two numbers
Min(a, b) == IF a < b THEN a ELSE b

\* C16: the bound is tight and tasks wait only for slots: when the loop can
\* dispatch no more (it waits for a slot, or it has taken every key) and no
\* fetch has returned yet, exactly min(K, N) fetches are in flight; and when
\* K <= N the loop never has to wait for a slot.
C16_BoundIsTight ==
    threads >= 1 =>
        /\ (/\ Fetched = {}
            /\ \/ pc = "wait"
               \/ pc = "acquire" /\ ~ENABLED Acquire)
           => Cardinality(InFlight) = Min(Len(keys), threads)
        /\ (Len(keys) <= threads /\ pc = "acquire") => ENABLED Acquire

\* as many fetches as there are slots are in flight, and more keys than slots
C16_Witness ==
    /\ threads = 2
    /\ Len(keys) = 2
    /\ pc = "wait"
    /\ Cardinality(InFlight) = 2
    /\ \A t \in Tasks : tpc[t] = "get"

\* C17: with a budget of 0 and a non-empty key sequence downloadAllKeys stops
\* for ever at the first acquisition of a slot: no task is dispatched, no fetch
\* is made, the counter stays at 0, the call never returns, and the state in
\* which nothing can move is always reached.
C17_ZeroBudgetBlocks ==
    /\ []((flags.t = 0 /\ Len(keys) >= 1) =>
             /\ pc \in {"bulk", "loop", "acquire"}
             /\ i <= 1
             /\ sem = 0
             /\ \A t \in Tasks \cap DOMAIN tpc : tpc[t] = "idle" /\ reqs[t] = Empty
             /\ bar.started => bar.current = 0
             /\ fs = <<>>
             /\ pc = "acquire" => ~ENABLED Next)
    /\ (flags.t = 0 /\ Len(keys) >= 1) ~> [](pc = "acquire" /\ i = 1 /\ wg = 1)

\* the loop stands at the first acquisition with two keys to fetch and no slot
C17_Witness ==
    /\ flags.t = 0
    /\ Len(keys) = 2
    /\ pc = "acquire"
    /\ i = 1
    /\ bar.started /\ bar.current = 0

\* C18: downloadAllKeys is never entered with a budget below 1, because main
\* checks the thread count before the call.
C18_BudgetValidated ==
    ("bulk" \in did /\ pc # "bulk" /\ bar.started) => threads >= 1

\* the URL each key of source j is to be fetched from: the URL of the bucket
\* that listed it, "/", and the key as the listing returned it
SourceUrls(j) ==
    LET b == Bucket(urls[j])
        m == IF flags.l < Len(b) THEN flags.l ELSE Len(b)
    IN IF lres[j] # "ok" THEN Empty
       ELSE [n \in 1..m |-> urls[j] \o <<"/">> \o b[n]]

RECURSIVE AllSourceUrls(_)
AllSourceUrls(j) == IF j = 0 THEN Empty ELSE AllSourceUrls(j - 1) \o SourceUrls(j)

\* the key of source j as its listing returned it
SourceKeys(j) ==
    LET b == Bucket(urls[j])
        m == IF flags.l < Len(b) THEN flags.l ELSE Len(b)
    IN IF lres[j] # "ok" THEN Empty ELSE [n \in 1..m |-> b[n]]

RECURSIVE AllSourceKeys(_)
AllSourceKeys(j) == IF j = 0 THEN Empty ELSE AllSourceKeys(j - 1) \o SourceKeys(j)

\* C19: in every bulk run, also one whose keys come from a file of bucket
\* URLs, each task fetches the URL of the bucket its key was listed from, "/",
\* and the key as listed, and writes the file named by the key's last segment.
C19_FetchFromSourceBucket ==
    ("bulk" \in did /\ pc # "download") =>
        \A t \in Tasks \cap DOMAIN tpc :
            /\ Len(reqs[t]) >= 1 => reqs[t][1] = AllSourceUrls(Len(urls))[t]
            /\ res[t] = "saved" => Base(AllSourceKeys(Len(urls))[t]) \in DOMAIN fs

====
